---- MODULE Spec2Model ----
(***************************************************************************)
(* agent-config-manager (acm): one JSON configuration document on disk,    *)
(* read and written by short-lived command invocations (init, show, get,   *)
(* set, validate, export).                                                  *)
(*                                                                          *)
(* Go values.  A string is a sequence of units; a unit is one character    *)
(* ("k", "5", "<"), the invalid UTF-8 byte 0xFF ("BAD"), the rune U+FFFD   *)
(* ("FFFD"), or, in the fixed default strings only, a run of plain ASCII   *)
(* ("Arithmos").  A float64 is a record [k, m, e]: k = "fin" is the        *)
(* decimal m * 10^-e (kept without trailing zeros), k = "nan" is NaN and   *)
(* k = "inf" is the infinity of sign m.  A []string is [nil, items].       *)
(*                                                                          *)
(* File contents are sequences of JSON tokens [t, v]: "lb" and "rb" (the   *)
(* braces of the document), "key", "q" (a double quote), "ch" (one encoded *)
(* unit of a string), "num" (a numeral m * 10^-e), "bool", "arr" (an array *)
(* of strings), "null".  The braces of the nested objects, the colons, the *)
(* commas and the indentation are left out; a key is written as its dotted *)
(* path.                                                                    *)
(***************************************************************************)
EXTENDS Integers, Sequences, FiniteSets, TLC

\* ------------------------------------------------------------ the schema

\* The fields of AgentConfig in declaration order, which is the order
\* encoding/json writes them in.
FieldOrder ==
    << "version",
       "agent.name", "agent.id", "agent.erc8004_id", "agent.website", "agent.github",
       "wallet.address", "wallet.networks", "wallet.daily_limit", "wallet.alert_threshold",
       "security.firewall_enabled", "security.honeypot_enabled",
       "security.prompt_guard_enabled", "security.simulator_enabled",
       "security.whitelisted_addresses", "security.blacklisted_addresses",
       "api_keys.etherscan", "api_keys.basescan", "api_keys.openai",
       "api_keys.anthropic", "api_keys.discord",
       "monitoring.dashboard_enabled", "monitoring.dashboard_port",
       "monitoring.webhook_url", "monitoring.check_interval_minutes" >>

Fields == { FieldOrder[i] : i \in 1..Len(FieldOrder) }

StringFields ==
    { "version", "agent.name", "agent.id", "agent.website", "agent.github",
      "wallet.address", "api_keys.etherscan", "api_keys.basescan", "api_keys.openai",
      "api_keys.anthropic", "api_keys.discord", "monitoring.webhook_url" }

IntFields ==
    { "agent.erc8004_id", "monitoring.dashboard_port", "monitoring.check_interval_minutes" }

FloatFields == { "wallet.daily_limit", "wallet.alert_threshold" }

BoolFields ==
    { "security.firewall_enabled", "security.honeypot_enabled",
      "security.prompt_guard_enabled", "security.simulator_enabled",
      "monitoring.dashboard_enabled" }

ListFields ==
    { "wallet.networks", "security.whitelisted_addresses", "security.blacklisted_addresses" }

\* The fields tagged `omitempty`.
OmitEmpty ==
    { "api_keys.etherscan", "api_keys.basescan", "api_keys.openai",
      "api_keys.anthropic", "api_keys.discord", "monitoring.webhook_url" }

Fin(m, e) == [k |-> "fin", m |-> m, e |-> e]
NaN == [k |-> "nan", m |-> 0, e |-> 0]
Inf(s) == [k |-> "inf", m |-> s, e |-> 0]

NilList == [nil |-> TRUE, items |-> << >>]
List(items) == [nil |-> FALSE, items |-> items]

\* The zero value of a field's Go type.
ZeroOf(f) ==
    IF f \in StringFields THEN << >>
    ELSE IF f \in IntFields THEN 0
    ELSE IF f \in FloatFields THEN Fin(0, 0)
    ELSE IF f \in BoolFields THEN FALSE
    ELSE NilList

\* var config AgentConfig
ZeroConfig == [f \in Fields |-> ZeroOf(f)]

\* The literal of initConfig.
DefaultConfig ==
    [f \in Fields |->
        CASE f = "version" -> << "0.1.0" >>
          [] f = "agent.name" -> << "Arithmos" >>
          [] f = "agent.id" -> << "arithmos-quillsworth" >>
          [] f = "agent.erc8004_id" -> 1941
          [] f = "agent.website" -> << "https://arithmos.dev" >>
          [] f = "agent.github" -> << "https://github.com/arithmosquillsworth" >>
          [] f = "wallet.address" -> << "0x120e011fB8a12bfcB61e5c1d751C26A5D33Aae91" >>
          [] f = "wallet.networks" -> List(<< << "ethereum" >>, << "base" >> >>)
          [] f = "wallet.daily_limit" -> Fin(5, 1)
          [] f = "wallet.alert_threshold" -> Fin(1, 1)
          [] f \in { "security.firewall_enabled", "security.honeypot_enabled",
                     "security.prompt_guard_enabled", "security.simulator_enabled" } -> TRUE
          [] f \in { "security.whitelisted_addresses",
                     "security.blacklisted_addresses" } -> List(<< >>)
          [] f = "monitoring.dashboard_enabled" -> TRUE
          [] f = "monitoring.dashboard_port" -> 8080
          [] f = "monitoring.check_interval_minutes" -> 5
          [] OTHER -> ZeroOf(f)]

\* ------------------------------------------------- encoding/json, writing

Tok(t, v) == [t |-> t, v |-> v]
LB == Tok("lb", 0)
RB == Tok("rb", 0)
Quote == Tok("q", 0)
Null == Tok("null", 0)

\* One unit of a Go string as the encoder writes it: an invalid UTF-8 byte
\* becomes the escape for U+FFFD, the HTML characters are escaped, every other
\* unit (U+FFFD itself included) is written as it is.
EncodeUnit(c) ==
    IF c = "BAD" THEN "\\ufffd"
    ELSE IF c = "<" THEN "\\u003c"
    ELSE c

RECURSIVE EncodeString(_)
EncodeString(s) ==
    IF s = << >> THEN << >>
    ELSE << EncodeUnit(Head(s)) >> \o EncodeString(Tail(s))

RECURSIVE StringTokens(_)
StringTokens(enc) ==
    IF enc = << >> THEN << >>
    ELSE << Tok("ch", Head(enc)) >> \o StringTokens(Tail(enc))

RECURSIVE EncodeItems(_)
EncodeItems(items) ==
    IF items = << >> THEN << >>
    ELSE << EncodeString(Head(items)) >> \o EncodeItems(Tail(items))

\* The value of one field as JSON tokens (floats are finite here).
EncodeValue(f, v) ==
    IF f \in StringFields THEN << Quote >> \o StringTokens(EncodeString(v)) \o << Quote >>
    ELSE IF f \in IntFields THEN << Tok("num", [m |-> v, e |-> 0]) >>
    ELSE IF f \in FloatFields THEN << Tok("num", [m |-> v.m, e |-> v.e]) >>
    ELSE IF f \in BoolFields THEN << Tok("bool", v) >>
    ELSE IF v.nil THEN << Null >>
    ELSE << Tok("arr", EncodeItems(v.items)) >>

\* One struct field: left out when tagged omitempty and empty.

\* A field written as if no tag were omitempty.
MarshalField_NoOmit(f, v) == << Tok("key", f) >> \o EncodeValue(f, v)

MarshalField(f, v) ==
    IF f \in OmitEmpty /\ v = << >> THEN << >>
    ELSE << Tok("key", f) >> \o EncodeValue(f, v)

RECURSIVE MarshalFields(_, _)
MarshalFields(config, i) ==
    IF i > Len(FieldOrder) THEN << >>
    ELSE MarshalField(FieldOrder[i], config[FieldOrder[i]]) \o MarshalFields(config, i + 1)

\* json.MarshalIndent(config, "", "  "): an UnsupportedValueError when a
\* float is NaN or an infinity, the document otherwise.
MarshalIndent(config) ==
    IF \E f \in FloatFields : config[f].k # "fin"
    THEN [err |-> TRUE, data |-> << >>]
    ELSE [err |-> FALSE, data |-> << LB >> \o MarshalFields(config, 1) \o << RB >>]

\* ------------------------------------------------- encoding/json, reading

\* One encoded unit read back: the escapes are undone, and an invalid byte
\* found in the text is replaced by U+FFFD.
DecodeUnit(u) ==
    IF u = "\\ufffd" THEN "FFFD"
    ELSE IF u = "\\u003c" THEN "<"
    ELSE IF u = "BAD" THEN "FFFD"
    ELSE u

RECURSIVE DecodeString(_)
DecodeString(enc) ==
    IF enc = << >> THEN << >>
    ELSE << DecodeUnit(Head(enc)) >> \o DecodeString(Tail(enc))

RECURSIVE DecodeItems(_)
DecodeItems(items) ==
    IF items = << >> THEN << >>
    ELSE << DecodeString(Head(items)) >> \o DecodeItems(Tail(items))

\* The index of the quote that closes the string whose units start at i
\* (0 when the text ends, or something that is no string unit comes, first).
RECURSIVE ClosingQuote(_, _)
ClosingQuote(toks, i) ==
    IF i > Len(toks) THEN 0
    ELSE IF toks[i].t = "q" THEN i
    ELSE IF toks[i].t = "ch" THEN ClosingQuote(toks, i + 1)
    ELSE 0

RECURSIVE UnitsOf(_, _, _)
UnitsOf(toks, i, j) ==
    IF i > j THEN << >> ELSE << toks[i].v >> \o UnitsOf(toks, i + 1, j)

NoValue == [ok |-> FALSE, kind |-> "", v |-> 0, next |-> 0]

\* The string whose opening quote is at i and whose closing quote is at j.
StringValue(toks, i, j) ==
    IF j = 0 THEN NoValue
    ELSE [ok |-> TRUE, kind |-> "string", v |-> UnitsOf(toks, i + 1, j - 1), next |-> j + 1]

\* The JSON value that starts at i: [ok, kind, v, next].
ParseValue(toks, i) ==
    IF i > Len(toks) THEN NoValue
    ELSE IF toks[i].t = "q" THEN StringValue(toks, i, ClosingQuote(toks, i + 1))
    ELSE IF toks[i].t \in { "num", "bool", "arr", "null" }
    THEN [ok |-> TRUE, kind |-> toks[i].t, v |-> toks[i].v, next |-> i + 1]
    ELSE NoValue

\* Whether a JSON value of this kind can be stored in field f.
Storable(f, val) ==
    \/ val.kind = "null"
    \/ f \in StringFields /\ val.kind = "string"
    \/ f \in IntFields /\ val.kind = "num" /\ val.v.e = 0
    \/ f \in FloatFields /\ val.kind = "num"
    \/ f \in BoolFields /\ val.kind = "bool"
    \/ f \in ListFields /\ val.kind = "arr"

\* The Go value a JSON value sets field f to (null leaves it as it is).
StoredValue(f, val, old) ==
    IF val.kind = "null" THEN old
    ELSE IF f \in StringFields THEN DecodeString(val.v)
    ELSE IF f \in IntFields THEN val.v.m
    ELSE IF f \in FloatFields THEN Fin(val.v.m, val.v.e)
    ELSE IF f \in BoolFields THEN val.v
    ELSE List(DecodeItems(val.v))

DecodeError == [err |-> TRUE, config |-> ZeroConfig]

\* The members of the document from token i on, stored into config one by
\* one; the closing brace must be the last token.  A member that is no
\* field of the struct is skipped; text that is not JSON (a SyntaxError)
\* and a value of the wrong type (an UnmarshalTypeError) both end in err.
RECURSIVE DecodeMembers(_, _, _)
DecodeMember(toks, name, val, config) ==
    IF ~val.ok THEN DecodeError
    ELSE IF name \notin Fields THEN DecodeMembers(toks, val.next, config)
    ELSE IF ~Storable(name, val) THEN DecodeError
    ELSE DecodeMembers(toks, val.next,
                       [config EXCEPT ![name] = StoredValue(name, val, config[name])])

DecodeMembers(toks, i, config) ==
    IF i > Len(toks) THEN DecodeError
    ELSE IF toks[i].t = "rb"
    THEN IF i = Len(toks) THEN [err |-> FALSE, config |-> config] ELSE DecodeError
    ELSE IF toks[i].t # "key" THEN DecodeError
    ELSE DecodeMember(toks, toks[i].v, ParseValue(toks, i + 1), config)

\* json.Unmarshal(data, &config) into a zero config: [err, config].
Unmarshal(data) ==
    IF data = << >> THEN DecodeError
    ELSE IF data[1].t # "lb" THEN DecodeError
    ELSE DecodeMembers(data, 2, ZeroConfig)

\* ------------------------------------------------------------ fmt.Sscanf

\* The characters a command-line value is made of in this model.  The
\* scanner's branches for the characters left out (the exponent letters,
\* the hexadecimal prefix, the underscore) are not taken.
Digits == { "0", "1", "2", "3", "4", "5", "6", "7", "8", "9" }
Sign == { "+", "-" }

DigitValue(c) ==
    CASE c = "0" -> 0 [] c = "1" -> 1 [] c = "2" -> 2 [] c = "3" -> 3 [] c = "4" -> 4
      [] c = "5" -> 5 [] c = "6" -> 6 [] c = "7" -> 7 [] c = "8" -> 8 [] c = "9" -> 9

\* The unit at position i, or "EOF".
At(s, i) == IF i >= 1 /\ i <= Len(s) THEN s[i] ELSE "EOF"

\* s.SkipSpace()
RECURSIVE SkipSpace(_)
SkipSpace(s) == IF s # << >> /\ Head(s) = " " THEN SkipSpace(Tail(s)) ELSE s

\* for s.accept(set) {}: the first position from i on whose unit is not in set.
RECURSIVE AcceptAll(_, _, _)
AcceptAll(s, i, set) == IF At(s, i) \in set THEN AcceptAll(s, i + 1, set) ELSE i

\* s.accept(a) && s.accept(b) && s.accept(c) from position i: how many of
\* the three were consumed before one failed.
AcceptChain(s, i, a, b, c) ==
    IF At(s, i) \notin a THEN 0
    ELSE IF At(s, i + 1) \notin b THEN 1
    ELSE IF At(s, i + 2) \notin c THEN 2
    ELSE 3

\* (*ss).floatToken: the length of the token taken from the front of s.
FloatTokenLen(s) ==
    LET n1 == AcceptChain(s, 1, {"n", "N"}, {"a", "A"}, {"n", "N"})
    IN IF n1 = 3 THEN 3
       ELSE LET p1 == n1 + 1
                p2 == IF At(s, p1) \in Sign THEN p1 + 1 ELSE p1
                n2 == AcceptChain(s, p2, {"i", "I"}, {"n", "N"}, {"f", "F"})
            IN IF n2 = 3 THEN p2 + 2
               ELSE LET p3 == AcceptAll(s, p2 + n2, Digits)
                        p4 == IF At(s, p3) = "." THEN AcceptAll(s, p3 + 1, Digits) ELSE p3
                    IN p4 - 1

\* The decimal number m * 10^-e without trailing zeros in its fraction.
RECURSIVE Normal(_, _)
Normal(m, e) == IF e > 0 /\ m % 10 = 0 THEN Normal(m \div 10, e - 1) ELSE Fin(m, e)

\* The value of a run of digits that follows the value acc.
RECURSIVE DigitsValue(_, _)
DigitsValue(ds, acc) ==
    IF ds = << >> THEN acc ELSE DigitsValue(Tail(ds), 10 * acc + DigitValue(Head(ds)))

\* strconv.ParseFloat(tok, 64) on a token of floatToken: [ok, val].
ParseFloat(tok) ==
    LET signed == tok # << >> /\ Head(tok) \in Sign
        neg == signed /\ Head(tok) = "-"
        body == IF signed THEN Tail(tok) ELSE tok
        endInt == AcceptAll(body, 1, Digits)
        intPart == SubSeq(body, 1, endInt - 1)
        hasDot == At(body, endInt) = "."
        endFrac == IF hasDot THEN AcceptAll(body, endInt + 1, Digits) ELSE endInt
        fracPart == IF hasDot THEN SubSeq(body, endInt + 1, endFrac - 1) ELSE << >>
        mant == DigitsValue(intPart \o fracPart, 0)
    IN IF ~signed /\ Len(tok) = 3 /\ AcceptChain(tok, 1, {"n", "N"}, {"a", "A"}, {"n", "N"}) = 3
       THEN [ok |-> TRUE, val |-> NaN]
       ELSE IF Len(body) = 3 /\ AcceptChain(body, 1, {"i", "I"}, {"n", "N"}, {"f", "F"}) = 3
       THEN [ok |-> TRUE, val |-> Inf(IF neg THEN -1 ELSE 1)]
       ELSE IF endFrac # Len(body) + 1 \/ Len(intPart) + Len(fracPart) = 0
       THEN [ok |-> FALSE, val |-> Fin(0, 0)]
       ELSE [ok |-> TRUE, val |-> Normal(IF neg THEN -mant ELSE mant, Len(fracPart))]

\* fmt.Sscanf(value, "%f", &x): [ok, val]; the text after the token is
\* left unread, and nothing is stored when the scan fails.
ScanFloat(s) ==
    IF s = << >> THEN [ok |-> FALSE, val |-> Fin(0, 0)]
    ELSE ParseFloat(SubSeq(s, 1, FloatTokenLen(s)))

SscanfFloat(value) == ScanFloat(SkipSpace(value))

\* fmt.Sscanf(value, "%d", &x): [ok, val]; an optional sign and then at
\* least one decimal digit.
ScanInt(s) ==
    LET p1 == IF At(s, 1) \in Sign THEN 2 ELSE 1
        p2 == AcceptAll(s, p1, Digits)
        mag == DigitsValue(SubSeq(s, p1, p2 - 1), 0)
    IN IF s = << >> \/ p2 = p1 THEN [ok |-> FALSE, val |-> 0]
       ELSE [ok |-> TRUE, val |-> IF At(s, 1) = "-" THEN -mag ELSE mag]

SscanfInt(value) == ScanInt(SkipSpace(value))

\* ------------------------------------------------------- the file system

\* Permission bits (the execute bits play no part).
Perm0600 == { "ur", "uw" }
Perm0644 == { "ur", "uw", "gr", "or" }

\* The umask of the invoking shell (022).
Umask == { "gw", "ow" }

NoFile == [exists |-> FALSE, mode |-> {}, data |-> << >>]

\* os.OpenFile without O_TRUNC.
OpenFile_NoTrunc(f, perm) ==
    IF f.exists THEN f
    ELSE [exists |-> TRUE, mode |-> perm \ Umask, data |-> << >>]

\* os.OpenFile(name, O_WRONLY|O_CREATE|O_TRUNC, perm), the first half of
\* os.WriteFile: an existing file is emptied and keeps its mode; a new one
\* is created with perm less the umask.
OpenFile(f, perm) ==
    IF f.exists THEN [f EXCEPT !.data = << >>]
    ELSE [exists |-> TRUE, mode |-> perm \ Umask, data |-> << >>]

\* f.Write(data), the second half of os.WriteFile: data lands at offset 0
\* of the file as it is then.
Write(f, data) ==
    [f EXCEPT !.data = data \o SubSeq(f.data, Len(data) + 1, Len(f.data))]

\* os.WriteFile(name, data, perm) with nothing running in between.
WriteFile(f, data, perm) == Write(OpenFile(f, perm), data)

\* ------------------------------------------------------------ ConfigStore

\* The second half of loadConfig, u being the result of json.Unmarshal.
Loaded(u) ==
    IF u.err THEN [err |-> "Malformed", config |-> ZeroConfig]
    ELSE [err |-> "", config |-> u.config]

\* loadConfig: [err, config]; err is "NotFound", "Malformed" or "".
loadConfig(f) ==
    IF ~f.exists THEN [err |-> "NotFound", config |-> ZeroConfig]
    ELSE Loaded(Unmarshal(f.data))

\* The second half of saveConfig, m being the result of json.MarshalIndent.
Saved(f, m) ==
    IF m.err THEN [err |-> "MarshalError", file |-> f]
    ELSE [err |-> "", file |-> WriteFile(f, m.data, Perm0600)]

\* saveConfig: [err, file]; err is "MarshalError" or "" (the file system
\* accepts every write).
saveConfig(f, config) == Saved(f, MarshalIndent(config))

\* The end of initConfig, s being the result of saveConfig.
Created(s) == [wrote |-> TRUE, err |-> s.err, file |-> s.file, config |-> DefaultConfig]


\* initConfig without its os.Stat check.
initConfig_Overwrite(f) == Created(saveConfig(f, DefaultConfig))

\* initConfig: [wrote, err, file, config].
initConfig(f) ==
    IF f.exists THEN [wrote |-> FALSE, err |-> "", file |-> f, config |-> ZeroConfig]
    ELSE Created(saveConfig(f, DefaultConfig))

\* ------------------------------------------------------------ KeyAccessor


\* The cases of getValue with one for wallet.networks.
GettableKeys_WithNetworks ==
    { "agent.name", "agent.id", "agent.erc8004_id", "wallet.address",
      "wallet.daily_limit", "wallet.alert_threshold", "security.firewall_enabled",
      "security.honeypot_enabled", "monitoring.dashboard_port", "wallet.networks" }

GettableKeys ==
    { "agent.name", "agent.id", "agent.erc8004_id", "wallet.address",
      "wallet.daily_limit", "wallet.alert_threshold", "security.firewall_enabled",
      "security.honeypot_enabled", "monitoring.dashboard_port" }

\* The switch of getValue: [known, printed].
getSwitch(config, key) ==
    IF key \in GettableKeys THEN [known |-> TRUE, printed |-> << config[key] >>]
    ELSE [known |-> FALSE, printed |-> << >>]

\* The end of getValue, sw being the result of the switch.
GetSwitched(sw) ==
    IF ~sw.known THEN [err |-> "UnknownKey", printed |-> << >>]
    ELSE [err |-> "", printed |-> sw.printed]

\* getValue after loadConfig returned l.
Got(l, key) ==
    IF l.err # "" THEN [err |-> l.err, printed |-> << >>]
    ELSE GetSwitched(getSwitch(l.config, key))

\* getValue: [err, printed].
getValue(f, key) == Got(loadConfig(f), key)

APIKeyKeys ==
    { "api_keys.etherscan", "api_keys.basescan", "api_keys.openai",
      "api_keys.anthropic", "api_keys.discord" }

\* var x T; fmt.Sscanf(value, verb, &x): x after the call, r being what the
\* scan yields.  The variable starts at zero and the error is not looked at.
Scanned(r, zero) == IF r.ok THEN r.val ELSE zero


\* The switch of setValue assigning a numeric field only when the scan succeeds.
setSwitch_KeepOld(config, key, value) ==
    IF key \in APIKeyKeys \cup { "monitoring.webhook_url" }
    THEN [known |-> TRUE, config |-> [config EXCEPT ![key] = value]]
    ELSE IF key \in { "wallet.daily_limit", "wallet.alert_threshold" }
    THEN [known |-> TRUE,
          config |-> [config EXCEPT ![key] = Scanned(SscanfFloat(value), config[key])]]
    ELSE IF key = "monitoring.check_interval"
    THEN [known |-> TRUE,
          config |-> [config EXCEPT !["monitoring.check_interval_minutes"] =
                         Scanned(SscanfInt(value),
                                 config["monitoring.check_interval_minutes"])]]
    ELSE [known |-> FALSE, config |-> config]

\* The switch of setValue: [known, config].
setSwitch(config, key, value) ==
    IF key \in APIKeyKeys
    THEN [known |-> TRUE, config |-> [config EXCEPT ![key] = value]]
    ELSE IF key \in { "wallet.daily_limit", "wallet.alert_threshold" }
    THEN [known |-> TRUE,
          config |-> [config EXCEPT ![key] = Scanned(SscanfFloat(value), Fin(0, 0))]]
    ELSE IF key = "monitoring.webhook_url"
    THEN [known |-> TRUE, config |-> [config EXCEPT ![key] = value]]
    ELSE IF key = "monitoring.check_interval"
    THEN [known |-> TRUE,
          config |-> [config EXCEPT !["monitoring.check_interval_minutes"] =
                                         Scanned(SscanfInt(value), 0)]]
    ELSE [known |-> FALSE, config |-> config]

\* The end of setValue, sv being the result of saveConfig(config).
SetSaved(loaded, config, sv) ==
    [err |-> sv.err, file |-> sv.file, saved |-> TRUE, config |-> config, loaded |-> loaded]

\* setValue after the switch returned sw.
SetSwitched(f, loaded, sw) ==
    IF ~sw.known
    THEN [err |-> "UnknownKey", file |-> f, saved |-> FALSE, config |-> loaded,
          loaded |-> loaded]
    ELSE SetSaved(loaded, sw.config, saveConfig(f, sw.config))

\* setValue applying its switch to the default document instead of the
\* loaded one.
SetLoaded_Default(f, key, value, l) ==
    IF l.err # ""
    THEN [err |-> l.err, file |-> f, saved |-> FALSE, config |-> l.config,
          loaded |-> l.config]
    ELSE SetSwitched(f, l.config, setSwitch(DefaultConfig, key, value))

\* setValue after loadConfig returned l.
SetLoaded(f, key, value, l) ==
    IF l.err # ""
    THEN [err |-> l.err, file |-> f, saved |-> FALSE, config |-> l.config,
          loaded |-> l.config]
    ELSE SetSwitched(f, l.config, setSwitch(l.config, key, value))

\* setValue: [err, file, saved, config, loaded]; saved tells whether
\* saveConfig was called, config is what it was called with, loaded is
\* what loadConfig returned.
setValue(f, key, value) == SetLoaded(f, key, value, loadConfig(f))

\* -------------------------------------------------------------- Validator


\* config.Wallet.DailyLimit < 0.
FloatLeqZero_Strict(x) == x.k \in { "fin", "inf" } /\ x.m < 0

\* config.Wallet.DailyLimit <= 0 on a float64 (false for NaN).
FloatLeqZero(x) ==
    \/ x.k = "fin" /\ x.m <= 0
    \/ x.k = "inf" /\ x.m < 0

\* The issues slice of validateConfig after its five appends.
Issues(config) ==
    (IF config["wallet.address"] = << >> THEN << "Wallet address not set" >> ELSE << >>)
    \o (IF FloatLeqZero(config["wallet.daily_limit"])
        THEN << "Daily limit should be positive" >> ELSE << >>)
    \o (IF config["api_keys.etherscan"] = << >>
        THEN << "Etherscan API key not set" >> ELSE << >>)
    \o (IF config["api_keys.basescan"] = << >>
        THEN << "Basescan API key not set" >> ELSE << >>)
    \o (IF ~config["security.firewall_enabled"] /\ ~config["security.honeypot_enabled"]
        THEN << "All security features disabled" >> ELSE << >>)

\* The report of validateConfig ending in an error when there are issues.
Report_FailOnIssues(issues) ==
    IF Len(issues) = 0
    THEN [err |-> "", valid |-> TRUE, issues |-> << >>, count |-> -1]
    ELSE [err |-> "Invalid", valid |-> FALSE, issues |-> issues, count |-> Len(issues)]

\* What validateConfig prints for the issues found: valid is the line
\* "Configuration is valid!", count the number of "Found %d issue(s)"
\* (-1 when that line is not printed).
Report(issues) ==
    IF Len(issues) = 0
    THEN [err |-> "", valid |-> TRUE, issues |-> << >>, count |-> -1]
    ELSE [err |-> "", valid |-> FALSE, issues |-> issues, count |-> Len(issues)]

\* validateConfig after loadConfig returned l.
Validated(l) ==
    IF l.err # "" THEN [err |-> l.err, valid |-> FALSE, issues |-> << >>, count |-> -1]
    ELSE Report(Issues(l.config))

\* validateConfig: [err, valid, issues, count].
validateConfig(f) == Validated(loadConfig(f))

\* --------------------------------------------------------------- Exporter

ExportNames == { "wallet-monitor.json", "reputation-scanner.json", "security-dashboard.json" }

\* The three map literals of exportConfig as << key, source field >> pairs,
\* in the order encoding/json writes a map in (sorted by key).
ExportMap(name) ==
    IF name = "wallet-monitor.json"
    THEN << << "address", "wallet.address" >>,
            << "alert_threshold", "wallet.alert_threshold" >>,
            << "basescan_key", "api_keys.basescan" >>,
            << "check_interval", "monitoring.check_interval_minutes" >>,
            << "etherscan_key", "api_keys.etherscan" >>,
            << "webhook_url", "monitoring.webhook_url" >> >>
    ELSE IF name = "reputation-scanner.json"
    THEN << << "address", "wallet.address" >>,
            << "basescan_key", "api_keys.basescan" >>,
            << "etherscan_key", "api_keys.etherscan" >> >>
    ELSE << << "port", "monitoring.dashboard_port" >> >>

\* The members of a map with the empty strings left out.
RECURSIVE MarshalEntries_OmitEmpty(_, _)
MarshalEntries_OmitEmpty(config, entries) ==
    IF entries = << >> THEN << >>
    ELSE (IF Head(entries)[2] \in StringFields /\ config[Head(entries)[2]] = << >>
          THEN << >>
          ELSE << Tok("key", Head(entries)[1]) >>
               \o EncodeValue(Head(entries)[2], config[Head(entries)[2]]))
         \o MarshalEntries_OmitEmpty(config, Tail(entries))

RECURSIVE MarshalEntries(_, _)
MarshalEntries(config, entries) ==
    IF entries = << >> THEN << >>
    ELSE << Tok("key", Head(entries)[1]) >>
         \o EncodeValue(Head(entries)[2], config[Head(entries)[2]])
         \o MarshalEntries(config, Tail(entries))

\* json.MarshalIndent of a map: data, empty when a float is not finite (the
\* error is dropped by exportToolConfig).
MarshalMap(config, entries) ==
    IF \E i \in 1..Len(entries) :
          entries[i][2] \in FloatFields /\ config[entries[i][2]].k # "fin"
    THEN << >>
    ELSE << LB >> \o MarshalEntries(config, entries) \o << RB >>

\* exportToolConfig: the file after os.WriteFile, whose error is dropped too.
exportToolConfig(f, config, entries) == WriteFile(f, MarshalMap(config, entries), Perm0600)

\* exportConfig after loadConfig returned l.
Exported(l, ex) ==
    IF l.err # "" THEN [err |-> l.err, exports |-> ex]
    ELSE [err |-> "",
          exports |-> [n \in ExportNames |->
                          exportToolConfig(ex[n], l.config, ExportMap(n))]]

\* exportConfig: [err, exports].
exportConfig(f, ex) == Exported(loadConfig(f), ex)

\* ------------------------------------------------------------ the program

\* How many invocations a behaviour runs.
MaxOps == 2

\* The keys given to set: the settable ones and two others of the schema.
SetKeys ==
    APIKeyKeys \cup { "wallet.daily_limit", "wallet.alert_threshold",
                      "monitoring.webhook_url", "monitoring.check_interval",
                      "wallet.address", "wallet.networks" }

\* The values given to set with each key: nothing, a plain text, a text
\* with an HTML character, an invalid byte, numbers, a number followed by
\* text, and "nan".
ValuesFor(key) ==
    IF key = "api_keys.etherscan" THEN { << >>, << "k", "<" >>, << "BAD" >> }
    ELSE IF key = "wallet.daily_limit"
    THEN { << "5" >>, << "5", "k" >>, << "k" >>, << "n", "a", "n" >> }
    ELSE IF key = "wallet.alert_threshold" THEN { << ".", "5" >>, << >> }
    ELSE IF key = "monitoring.check_interval" THEN { << "7" >>, << "7", "k" >>, << "k" >> }
    ELSE { << "k" >> }

\* The keys given to get: the gettable ones and two others of the schema.
GetKeys == GettableKeys \cup { "wallet.networks", "api_keys.etherscan" }

\* A configuration with both scanner keys set.
FullConfig ==
    [DefaultConfig EXCEPT !["api_keys.etherscan"] = << "E1" >>,
                          !["api_keys.basescan"] = << "B1" >>]

\* A file written by hand: few members, an api key present but empty.
BareData ==
    << LB, Tok("key", "version"), Quote, Tok("ch", "0.1.0"), Quote,
       Tok("key", "api_keys.etherscan"), Quote, Quote,
       Tok("key", "security.firewall_enabled"), Tok("bool", FALSE), RB >>

\* A file cut short.
CutData == << LB, Tok("key", "version"), Quote, Tok("ch", "0.1.0") >>

\* The config file as an invocation may find it.
StartFiles ==
    { NoFile,
      [exists |-> TRUE, mode |-> Perm0600, data |-> MarshalIndent(FullConfig).data],
      [exists |-> TRUE, mode |-> Perm0644, data |-> BareData],
      [exists |-> TRUE, mode |-> Perm0644, data |-> CutData] }

VARIABLES
    file,      \* ~/.config/agent/config.json: [exists, mode, data]
    exports,   \* ~/.config/agent/exports/<name>: [exists, mode, data]
    start,     \* the config file before the first invocation
    last,      \* the last invocation: its arguments, its outcome, the file before it
    expect,    \* [active, config]: the document before the first successful
               \* set, with each field set since then at the value assigned to it
    nops,      \* invocations run so far
    pc,        \* of each concurrent set invocation: "start", "open", "write", "done"
    mem,       \* its memory: [key, value, config, data], config being what it saves
    res,       \* the error it ended with
    io,        \* [loads, saves]: its calls of loadConfig and of saveConfig
    winner,    \* the invocation whose write came last (0: none wrote)
    overlap    \* whether a load or a save ran inside another save

seqvars == << exports, start, last, expect, nops >>
convars == << pc, mem, res, io, winner, overlap >>
vars == << file, exports, start, last, expect, nops, pc, mem, res, io, winner, overlap >>

\* The two invocations that run side by side.
Procs == { 1, 2 }

NoMem == [key |-> "", value |-> << >>, config |-> ZeroConfig, data |-> << >>]

NoRun ==
    [cmd |-> "none", key |-> "", value |-> << >>, exit |-> 0, err |-> "",
     pre |-> NoFile, saved |-> FALSE, config |-> ZeroConfig, printed |-> << >>,
     valid |-> FALSE, issues |-> << >>, count |-> -1]

\* os.Exit(1) on every error, a return from main otherwise.
ExitOf(err) == IF err = "" THEN 0 ELSE 1

\* The record of an invocation that ended with err.
Run(cmd, err) == [NoRun EXCEPT !.cmd = cmd, !.pre = file, !.err = err, !.exit = ExitOf(err)]

InitCommon ==
    /\ exports = [n \in ExportNames |-> NoFile]
    /\ start = file
    /\ last = NoRun
    /\ expect = [active |-> FALSE, config |-> ZeroConfig]
    /\ nops = 0
    /\ pc = [p \in Procs |-> "start"]
    /\ mem = [p \in Procs |-> NoMem]
    /\ res = [p \in Procs |-> ""]
    /\ io = [p \in Procs |-> [loads |-> 0, saves |-> 0]]
    /\ winner = 0
    /\ overlap = FALSE

Init ==
    /\ file \in StartFiles
    /\ InitCommon

InitDone(r) ==
    /\ file' = r.file
    /\ last' = [Run("init", r.err) EXCEPT !.saved = r.wrote, !.config = r.config]

\* acm init
InitCmd ==
    /\ nops < MaxOps
    /\ InitDone(initConfig(file))
    /\ nops' = nops + 1
    /\ UNCHANGED << exports, start, expect, convars >>

\* acm show
ShowCmd ==
    /\ nops < MaxOps
    /\ last' = Run("show", loadConfig(file).err)
    /\ nops' = nops + 1
    /\ UNCHANGED << file, exports, start, expect, convars >>

GetDone(key, r) == last' = [Run("get", r.err) EXCEPT !.key = key, !.printed = r.printed]

\* acm get <key>
GetCmd(key) ==
    /\ nops < MaxOps
    /\ GetDone(key, getValue(file, key))
    /\ nops' = nops + 1
    /\ UNCHANGED << file, exports, start, expect, convars >>

\* The field a settable key addresses.
TargetOf(key) ==
    IF key = "monitoring.check_interval" THEN "monitoring.check_interval_minutes" ELSE key

\* The expectation after a successful set of key: the field it addresses
\* at the value setValue assigned to it, every other field as it was expected.
Expected(before, key, assigned) ==
    [active |-> TRUE,
     config |-> [before EXCEPT ![TargetOf(key)] = assigned[TargetOf(key)]]]

SetDone(key, value, r) ==
    /\ file' = r.file
    /\ last' = [Run("set", r.err) EXCEPT !.key = key, !.value = value,
                                       !.saved = r.saved, !.config = r.config]
    /\ expect' = IF r.saved /\ r.err = ""
                 THEN Expected(IF expect.active THEN expect.config ELSE r.loaded,
                               key, r.config)
                 ELSE expect

\* acm set <key> <value>
SetCmd(key, value) ==
    /\ nops < MaxOps
    /\ SetDone(key, value, setValue(file, key, value))
    /\ nops' = nops + 1
    /\ UNCHANGED << exports, start, convars >>

ValidateDone(r) ==
    last' = [Run("validate", r.err) EXCEPT !.valid = r.valid, !.issues = r.issues,
                                           !.count = r.count]

\* acm validate
ValidateCmd ==
    /\ nops < MaxOps
    /\ ValidateDone(validateConfig(file))
    /\ nops' = nops + 1
    /\ UNCHANGED << file, exports, start, expect, convars >>

ExportDone(r) ==
    /\ exports' = r.exports
    /\ last' = Run("export", r.err)

\* acm export
ExportCmd ==
    /\ nops < MaxOps
    /\ ExportDone(exportConfig(file, exports))
    /\ nops' = nops + 1
    /\ UNCHANGED << file, start, expect, convars >>

Next ==
    \/ InitCmd
    \/ ShowCmd
    \/ \E key \in GetKeys : GetCmd(key)
    \/ \E key \in SetKeys : \E value \in ValuesFor(key) : SetCmd(key, value)
    \/ ValidateCmd
    \/ ExportCmd

Spec == Init /\ [][Next]_vars

\* --------------------------------------------- two invocations side by side

\* The keys and the files of the concurrent set invocations.
ConcKeys == { "api_keys.openai", "wallet.daily_limit", "wallet.address" }

ConcStartFiles ==
    { [exists |-> TRUE, mode |-> Perm0600, data |-> MarshalIndent(FullConfig).data],
      [exists |-> TRUE, mode |-> Perm0644, data |-> BareData] }

InitConc ==
    /\ file \in ConcStartFiles
    /\ InitCommon

\* Whether another invocation is between the two halves of its os.WriteFile.
InsideSave(p) == \E q \in Procs \ {p} : pc[q] = "write"

\* setValue up to the call of os.WriteFile, l being what loadConfig
\* returned, sw the result of the switch and m that of json.MarshalIndent.
ConcMarshalled(p, key, value, sw, m) ==
    IF m.err
    THEN /\ pc' = [pc EXCEPT ![p] = "done"]
         /\ res' = [res EXCEPT ![p] = "MarshalError"]
         /\ mem' = [mem EXCEPT ![p] = [NoMem EXCEPT !.key = key, !.value = value]]
         /\ io' = [io EXCEPT ![p] = [loads |-> 1, saves |-> 1]]
    ELSE /\ pc' = [pc EXCEPT ![p] = "open"]
         /\ res' = res
         /\ mem' = [mem EXCEPT ![p] = [key |-> key, value |-> value,
                                       config |-> sw.config, data |-> m.data]]
         /\ io' = [io EXCEPT ![p] = [loads |-> 1, saves |-> 1]]

ConcSwitched(p, key, value, sw) ==
    IF ~sw.known
    THEN /\ pc' = [pc EXCEPT ![p] = "done"]
         /\ res' = [res EXCEPT ![p] = "UnknownKey"]
         /\ mem' = [mem EXCEPT ![p] = [NoMem EXCEPT !.key = key, !.value = value]]
         /\ io' = [io EXCEPT ![p] = [loads |-> 1, saves |-> 0]]
    ELSE ConcMarshalled(p, key, value, sw, MarshalIndent(sw.config))

ConcLoaded(p, key, value, l) ==
    IF l.err # ""
    THEN /\ pc' = [pc EXCEPT ![p] = "done"]
         /\ res' = [res EXCEPT ![p] = l.err]
         /\ mem' = [mem EXCEPT ![p] = [NoMem EXCEPT !.key = key, !.value = value]]
         /\ io' = [io EXCEPT ![p] = [loads |-> 1, saves |-> 0]]
    ELSE ConcSwitched(p, key, value, setSwitch(l.config, key, value))

\* acm set <key> <value> in process p, up to the call of os.WriteFile: the
\* file is read as it is at this moment.
ConcLoad(p, key, value) ==
    /\ pc[p] = "start"
    /\ ConcLoaded(p, key, value, loadConfig(file))
    /\ overlap' = (overlap \/ InsideSave(p))
    /\ UNCHANGED << file, winner, seqvars >>

\* The first half of os.WriteFile in process p.
ConcOpen(p) ==
    /\ pc[p] = "open"
    /\ file' = OpenFile(file, Perm0600)
    /\ pc' = [pc EXCEPT ![p] = "write"]
    /\ overlap' = (overlap \/ InsideSave(p))
    /\ UNCHANGED << mem, res, io, winner, seqvars >>

\* The second half of os.WriteFile in process p, and the end of setValue.
ConcWrite(p) ==
    /\ pc[p] = "write"
    /\ file' = Write(file, mem[p].data)
    /\ pc' = [pc EXCEPT ![p] = "done"]
    /\ winner' = p
    /\ UNCHANGED << mem, res, io, overlap, seqvars >>

NextConc ==
    \/ \E p \in Procs : \E key \in ConcKeys : \E value \in ValuesFor(key) :
          ConcLoad(p, key, value)
    \/ \E p \in Procs : ConcOpen(p)
    \/ \E p \in Procs : ConcWrite(p)

SpecConc == InitConc /\ [][NextConc]_vars

\* ------------------------------------------------------------- properties

\* Whether the config file f loads.
Loads(f) == loadConfig(f).err = ""

\* The document stored in f.
Doc(f) == loadConfig(f).config

\* Whether the text has a member of this name.
HasMember(data, name) ==
    \E i \in 1..Len(data) : data[i].t = "key" /\ data[i].v = name

\* Whether no string of the config has an invalid byte.
ValidUTF8(config) ==
    \A f \in StringFields : \A i \in 1..Len(config[f]) : config[f][i] # "BAD"

\* Whether every float of the config is finite.
Finite(config) == \A f \in FloatFields : config[f].k = "fin"

\* C1: init on an existing config file writes nothing and leaves the file
\* as it was; init on an absent file stores the default document.
InitNeverOverwrites ==
    last.cmd = "init" =>
        IF last.pre.exists
        THEN file = last.pre /\ ~last.saved /\ last.exit = 0
        ELSE last.saved /\ Loads(file) /\ Doc(file) = DefaultConfig

\* C1: a second init has run on the file the first init created.
InitTwiceReached ==
    /\ last.cmd = "init"
    /\ ~start.exists
    /\ last.pre.exists
    /\ Doc(file) = DefaultConfig

\* C2 as stated: whatever AgentConfig value saveConfig is called with, the
\* save succeeds and loadConfig returns that value.
RoundTripEvery ==
    last.saved => last.err = "" /\ Loads(file) /\ Doc(file) = last.config

\* C2 as amended: when saveConfig is called with a value whose floats are
\* finite and whose strings are valid UTF-8, the save succeeds, loadConfig
\* returns that value, and no empty api key or webhook URL is in the file.
RoundTripValid ==
    (last.saved /\ Finite(last.config) /\ ValidUTF8(last.config)) =>
        /\ last.err = ""
        /\ Loads(file)
        /\ Doc(file) = last.config
        /\ \A f \in OmitEmpty : last.config[f] = << >> => ~HasMember(file.data, f)

\* C2: a value with one api key set and another empty has been saved and
\* read back.
RoundTripReached ==
    /\ last.saved /\ last.err = ""
    /\ Finite(last.config) /\ ValidUTF8(last.config)
    /\ last.config["api_keys.etherscan"] = << "k", "<" >>
    /\ last.config["api_keys.openai"] = << >>
    /\ Doc(file) = last.config

\* C3: after every successful save by init or by set the file's mode is 0600.
SaveSetsMode0600 ==
    (last.cmd \in { "init", "set" } /\ last.saved /\ last.err = "") =>
        file.mode = Perm0600

\* The key sets of C4.
NineGettable ==
    { "agent.name", "agent.id", "agent.erc8004_id", "wallet.address",
      "wallet.daily_limit", "wallet.alert_threshold", "security.firewall_enabled",
      "security.honeypot_enabled", "monitoring.dashboard_port" }

NineSettable ==
    { "api_keys.etherscan", "api_keys.basescan", "api_keys.openai",
      "api_keys.anthropic", "api_keys.discord", "wallet.daily_limit",
      "wallet.alert_threshold", "monitoring.webhook_url", "monitoring.check_interval" }

\* Any other key ends with UnknownKey, a non-zero exit and no save.
RejectedAsUnknown ==
    /\ last.err = "UnknownKey"
    /\ last.exit # 0
    /\ ~last.saved
    /\ file = last.pre

\* C4 as stated: on a config file that loads, get succeeds exactly for the
\* nine gettable keys and set exactly for the nine settable keys; any other
\* key is rejected as unknown.
KeySetsExact ==
    /\ (last.cmd = "get" /\ Loads(last.pre)) =>
          IF last.key \in NineGettable THEN last.exit = 0 ELSE RejectedAsUnknown
    /\ (last.cmd = "set" /\ Loads(last.pre)) =>
          IF last.key \in NineSettable THEN last.exit = 0 ELSE RejectedAsUnknown

\* Whether the value given to set reads as NaN or an infinity for a float key.
NotFiniteGiven ==
    /\ last.key \in { "wallet.daily_limit", "wallet.alert_threshold" }
    /\ last.config[last.key].k # "fin"

\* C4 as amended: on a config file that loads, get succeeds exactly for
\* the nine gettable keys; set reaches the save exactly for the nine
\* settable keys and succeeds there unless the value of a float key reads
\* as NaN or an infinity, which ends the invocation with a marshal error
\* and the file unchanged; any other key is rejected as unknown.
KeySetsClosed ==
    /\ (last.cmd = "get" /\ Loads(last.pre)) =>
          IF last.key \in NineGettable
          THEN last.exit = 0 /\ last.printed = << Doc(last.pre)[last.key] >>
          ELSE RejectedAsUnknown
    /\ (last.cmd = "set" /\ Loads(last.pre)) =>
          IF last.key \in NineSettable
          THEN /\ last.saved
               /\ IF NotFiniteGiven
                  THEN last.err = "MarshalError" /\ last.exit # 0 /\ file = last.pre
                  ELSE last.exit = 0
          ELSE RejectedAsUnknown

\* C4: set wallet.address has been rejected on a config file that loads.
KeyAsymmetryReached ==
    /\ last.cmd = "set"
    /\ last.key = "wallet.address"
    /\ Loads(last.pre)
    /\ last.err = "UnknownKey"

IssueOrder ==
    << "Wallet address not set", "Daily limit should be positive",
       "Etherscan API key not set", "Basescan API key not set",
       "All security features disabled" >>

\* Whether the condition of an issue holds of a loaded document.
IssueHolds(config, issue) ==
    CASE issue = "Wallet address not set" -> Len(config["wallet.address"]) = 0
      [] issue = "Daily limit should be positive" ->
            /\ config["wallet.daily_limit"].k = "fin"
            /\ config["wallet.daily_limit"].m <= 0
      [] issue = "Etherscan API key not set" -> Len(config["api_keys.etherscan"]) = 0
      [] issue = "Basescan API key not set" -> Len(config["api_keys.basescan"]) = 0
      [] issue = "All security features disabled" ->
            /\ config["security.firewall_enabled"] = FALSE
            /\ config["security.honeypot_enabled"] = FALSE

\* The issues whose condition holds, in the fixed order.
RECURSIVE IssuesDue(_, _)
IssuesDue(config, i) ==
    IF i > Len(IssueOrder) THEN << >>
    ELSE (IF IssueHolds(config, IssueOrder[i]) THEN << IssueOrder[i] >> ELSE << >>)
         \o IssuesDue(config, i + 1)

\* C6: validate on a config file that loads reports exactly the issues
\* whose condition holds, in the fixed order, then their number; it reports
\* "valid" exactly when there is none.
ValidateReportsExactly ==
    (last.cmd = "validate" /\ Loads(last.pre)) =>
        /\ last.issues = IssuesDue(Doc(last.pre), 1)
        /\ last.valid <=> (\A i \in 1..5 : ~IssueHolds(Doc(last.pre), IssueOrder[i]))
        /\ ~last.valid => last.count = Len(last.issues)
        /\ (\A i \in 1..5 : IssueHolds(Doc(last.pre), IssueOrder[i])) => last.count = 5

\* C6: validate has reported all five issues.
FiveIssuesReached ==
    /\ last.cmd = "validate"
    /\ last.issues = IssueOrder
    /\ last.count = 5

\* The members of an exported file, read back: a function from the names
\* to the values, or "no JSON".
RECURSIVE MembersFrom(_, _, _)
MemberRead(toks, name, val, acc) ==
    IF ~val.ok THEN [ok |-> FALSE, vals |-> << >>]
    ELSE MembersFrom(toks, val.next,
            [n \in (DOMAIN acc) \cup {name} |-> IF n = name THEN val ELSE acc[n]])

MembersFrom(toks, i, acc) ==
    IF i > Len(toks) THEN [ok |-> FALSE, vals |-> << >>]
    ELSE IF toks[i].t = "rb" THEN [ok |-> i = Len(toks), vals |-> acc]
    ELSE IF toks[i].t # "key" THEN [ok |-> FALSE, vals |-> << >>]
    ELSE MemberRead(toks, toks[i].v, ParseValue(toks, i + 1), acc)

\* Whether the member read back is the value of the source field.
CopyOf(val, config, src) ==
    IF src \in StringFields THEN val.kind = "string" /\ DecodeString(val.v) = config[src]
    ELSE IF src \in IntFields THEN val.kind = "num" /\ val.v.e = 0 /\ val.v.m = config[src]
    ELSE val.kind = "num" /\ Fin(val.v.m, val.v.e) = config[src]

\* Whether the file holds exactly the members of want (a function from the
\* exported names to the source fields), each the copy of its source.
HoldsExactly(f, config, want) ==
    /\ f.exists
    /\ f.data # << >>
    /\ f.data[1].t = "lb"
    /\ MembersFrom(f.data, 2, << >>).ok
    /\ DOMAIN MembersFrom(f.data, 2, << >>).vals = DOMAIN want
    /\ \A n \in DOMAIN want : CopyOf(MembersFrom(f.data, 2, << >>).vals[n], config, want[n])

\* C7: export on a config file that loads writes the three files, each with
\* exactly the keys of its tool copied from their sources, empty and zero
\* values included, and does not write the config file.
ExportCopies ==
    (last.cmd = "export" /\ Loads(last.pre)) =>
        /\ file = last.pre
        /\ last.exit = 0
        /\ HoldsExactly(exports["wallet-monitor.json"], Doc(last.pre),
              [address |-> "wallet.address", etherscan_key |-> "api_keys.etherscan",
               basescan_key |-> "api_keys.basescan",
               check_interval |-> "monitoring.check_interval_minutes",
               alert_threshold |-> "wallet.alert_threshold",
               webhook_url |-> "monitoring.webhook_url"])
        /\ HoldsExactly(exports["reputation-scanner.json"], Doc(last.pre),
              [address |-> "wallet.address", etherscan_key |-> "api_keys.etherscan",
               basescan_key |-> "api_keys.basescan"])
        /\ HoldsExactly(exports["security-dashboard.json"], Doc(last.pre),
              [port |-> "monitoring.dashboard_port"])

\* C7: a document with an empty address, empty keys and a zero threshold
\* has been exported.
ExportEmptyReached ==
    /\ last.cmd = "export"
    /\ Loads(last.pre)
    /\ Doc(last.pre)["wallet.address"] = << >>
    /\ Doc(last.pre)["api_keys.basescan"] = << >>
    /\ Doc(last.pre)["wallet.alert_threshold"] = Fin(0, 0)
    /\ exports["wallet-monitor.json"].exists

\* C8 as stated: validate never modifies the config file and never exits
\* with a non-zero status, whatever the state of the file.
ValidateNeverFails ==
    last.cmd = "validate" => file = last.pre /\ last.exit = 0

\* C8 as amended: validate never modifies the config file; it exits with a
\* non-zero status exactly when the file is absent or does not load,
\* however many issues it finds otherwise.
ValidateReadOnly ==
    last.cmd = "validate" =>
        /\ file = last.pre
        /\ last.exit = 0 <=> Loads(last.pre)
        /\ last.exit # 0 => last.err \in { "NotFound", "Malformed" }

\* C8: validate has found issues and exited with status 0.
ValidateWithIssuesReached ==
    /\ last.cmd = "validate"
    /\ last.count >= 1
    /\ last.exit = 0
    /\ file = last.pre

\* Whether every invocation has ended.
AllDone == \A p \in Procs : pc[p] = "done"

\* C9 as stated: when the two set invocations have ended, neither has
\* failed because of the other, and the file holds exactly what the save
\* that came last wrote.
LastWriterWins ==
    AllDone =>
        /\ \A p \in Procs : res[p] \notin { "NotFound", "Malformed" }
        /\ winner # 0 => file.data = mem[winner].data

\* C9 as amended: every invocation loads at most once and saves at most
\* once; when no load and no save ran between the two halves of another
\* invocation's write, no invocation fails to load, and the file holds
\* exactly what the save that came last wrote: that invocation's snapshot
\* with its one field updated.
LastWriterWinsApart ==
    /\ \A p \in Procs : io[p].loads <= 1 /\ io[p].saves <= 1
    /\ (AllDone /\ ~overlap) =>
          /\ \A p \in Procs : res[p] \notin { "NotFound", "Malformed" }
          /\ winner # 0 =>
                /\ file.data = MarshalIndent(mem[winner].config).data
                /\ file.data = mem[winner].data

\* C9: both invocations have saved one after the other, the second from a
\* snapshot taken before the first wrote, and the first one's field is lost.
LostUpdateReached ==
    /\ AllDone /\ ~overlap
    /\ res[1] = "" /\ res[2] = ""
    /\ winner = 2
    /\ mem[1].key = "api_keys.openai"
    /\ mem[2].key = "wallet.daily_limit"
    /\ Doc(file)["api_keys.openai"] = << >>

\* C10 as stated: after any sequence of successful sets the stored document
\* is the one before the sequence with each field set at the value of the
\* last set of it, and every other field as it was.
SetFrameExact ==
    expect.active => Loads(file) /\ Doc(file) = expect.config

\* A string as the file keeps it: U+FFFD in the place of each invalid byte.
AsKept(str) == [i \in 1..Len(str) |-> IF str[i] = "BAD" THEN "FFFD" ELSE str[i]]

\* C10 as amended: after any sequence of successful sets the stored
\* document is the one before the sequence with each field set at the value
\* of the last set of it, a string value having U+FFFD in the place of each
\* invalid byte, and every other field as it was.
SetFrame ==
    expect.active =>
        /\ Loads(file)
        /\ \A f \in Fields :
              Doc(file)[f] = IF f \in StringFields THEN AsKept(expect.config[f])
                             ELSE expect.config[f]

\* C10: two successful sets of different fields have run, and the stored
\* document differs from the first one in exactly those two fields.
TwoSetsReached ==
    /\ expect.active
    /\ nops = 2
    /\ Loads(start)
    /\ last.cmd = "set" /\ last.err = ""
    /\ Cardinality({ f \in Fields : Doc(file)[f] # Doc(start)[f] }) = 2

====
